---- MODULE Spec2Model ----
(***************************************************************************)
(* A model of the speed-test component of src/speedtest-clone.tsx: the     *)
(* React state of Component, the localStorage key "speedtest-history",     *)
(* the mount effects, and the asynchronous startTest run, one action per   *)
(* code segment between two awaits.                                        *)
(*                                                                         *)
(* Units.  JavaScript numbers that the code compares or rounds are kept    *)
(* as integers: metric values (ms, Mbps) in hundredths, so 185 is 18500    *)
(* and 0.1 is 10; transfer sizes in MiB; times in ms; endpoint weights in  *)
(* tenths.  Status texts are the code's texts without the emoji and        *)
(* without the (i/n) counter.                                              *)
(*                                                                         *)
(* Closures.  startTest, runPingTest and cleanupHistory read the state     *)
(* variables of the render in which they were created.  The run keeps the  *)
(* values its startTest saw when GO was clicked (run.c), and the cleanup   *)
(* timer set by the mount effect keeps the values of the first render.     *)
(***************************************************************************)
EXTENDS Integers, Sequences, FiniteSets, TLC

VARIABLES
  mounted,            \* the component has rendered and run its mount effects
  currentView,        \* useState "test" | "history"
  isTesting,          \* useState
  currentTest,        \* useState "idle" | "ping" | "download" | "upload" | "complete"
  progress,           \* useState
  testStatus,         \* useState
  ping,               \* useState, display value
  downloadSpeed,      \* useState, display value
  uploadSpeed,        \* useState, display value
  testHistory,        \* useState, list of TestResult
  abortControllerRef, \* useRef: 0 is null, otherwise the id of the controller
  serverInfo,         \* useState
  storage,            \* localStorage["speedtest-history"]
  cleanupTimer,       \* the 500 ms timer of the cleanup effect is pending
  clock,              \* Date.now(), a logical clock that ticks at every startTest
  run                 \* the frame of the startTest invocation

vars == << mounted, currentView, isTesting, currentTest, progress, testStatus,
           ping, downloadSpeed, uploadSpeed, testHistory, abortControllerRef,
           serverInfo, storage, cleanupTimer, clock, run >>

\* ------------------------------------------------------------------ bounds

\* StartTest is not taken once the clock has reached MaxRuns.
MaxRuns == 2
\* At most MaxPingFail latency probes of one run fail.
MaxPingFail == 1
\* At most MaxInstant awaits of one throughput stage settle within the same
\* millisecond as the await before them.
MaxInstant == 1
\* The persisted list at start-up holds at most MaxStored entries (SpecHistory).
MaxStored == 1
\* StartTest is not taken once the clock has reached MaxAppendRuns (SpecAppend).
MaxAppendRuns == 22
\* StartTest is not taken once the clock has reached MaxStageRuns (SpecStages).
MaxStageRuns == 1

\* ------------------------------------------------------- program constants

numPings == 10
testDuration == 10000
HistoryCap == 20

\* ------------------------------------------------------------ JS values

Undef == [ty |-> "undefined", n |-> 0, s |-> ""]
Null == [ty |-> "null", n |-> 0, s |-> ""]
Num(x) == [ty |-> "number", n |-> x, s |-> ""]
\* The text t.  A text that names an instant is one of the three date texts
\* below; as a timestamp, Str(t) is a text that no runtime reads as a date
\* ("yesterday").
Str(t) == [ty |-> "string", n |-> 0, s |-> t]
\* Instants are milliseconds since the epoch, below 2^31.
\* The text Date.prototype.toISOString writes for the instant t
\* ("1970-01-02T00:00:00.000Z").
IsoStr(t) == [ty |-> "string", n |-> t, s |-> "iso"]
\* Another text that every runtime reads as the instant t: the date-time
\* format in another precision ("1970-01-02", "1970-01-02T00:00:00Z"), or the
\* text of toString or toUTCString ("Fri, 02 Jan 1970 00:00:00 GMT").
StandardDateStr(t) == [ty |-> "string", n |-> t, s |-> "standard date"]
\* A text in a format outside of these, which a runtime reads as the instant
\* t or rejects, as its parser chooses ("Jan 2, 1970 00:00:00 GMT",
\* "January 2, 1970", "5").
LegacyDateStr(t) == [ty |-> "string", n |-> t, s |-> "legacy date"]
DateOf(t) == [ty |-> "date", n |-> t, s |-> ""]
InvalidDate == [ty |-> "date", n |-> 0, s |-> "invalid"]

Truthy(v) ==
  CASE v.ty = "undefined" -> FALSE
    [] v.ty = "null" -> FALSE
    [] v.ty = "number" -> v.n # 0
    [] v.ty = "string" -> v.s # ""
    [] OTHER -> TRUE

Max(a, b) == IF a >= b THEN a ELSE b
Min(a, b) == IF a <= b THEN a ELSE b

\* The runtimes: one whose Date.parse reads the texts outside of the
\* standard formats (lenient), and one that rejects them.
DateParsers == BOOLEAN

\* new Date(v) for a truthy v, in a runtime whose parser is lenient or not.
NewDate(v, lenient) ==
  CASE v.ty = "string" /\ v.s \in {"iso", "standard date"} -> DateOf(v.n)
    [] v.ty = "string" /\ v.s = "legacy date" ->
         IF lenient THEN DateOf(v.n) ELSE InvalidDate
    [] v.ty = "string" -> InvalidDate
    [] v.ty = "number" -> DateOf(v.n)
    [] v.ty = "date" -> v
    [] OTHER -> InvalidDate

\* Date.prototype.toJSON: the ISO text, or null for an invalid date.
DateToJSON(d) == IF d.s = "invalid" THEN Null ELSE IsoStr(d.n)

\* ------------------------------------------------------- history entries

\* A parsed JSON array element: an object with the TestResult fields (an absent
\* field reads undefined), null, or a primitive such as 5.
Obj(id, p, d, u, loc, prov, ip, ts) ==
  [k |-> "object", id |-> id, ping |-> p, download |-> d, upload |-> u,
   location |-> loc, provider |-> prov, ip |-> ip, timestamp |-> ts]
JsonNull == [Obj(Undef, Undef, Undef, Undef, Undef, Undef, Undef, Undef) EXCEPT !.k = "null"]
JsonPrim == [Obj(Undef, Undef, Undef, Undef, Undef, Undef, Undef, Undef) EXCEPT !.k = "primitive"]

\* Math.random().toString(36).substring(2, 9) for the draws 0.5 and 0.25.
RandomSuffixes == { "i", "9" }
\* Date.now().toString() + suffix
GenId(now, suffix) == [ty |-> "string", n |-> now, s |-> suffix]
\* Date.now().toString()
NowId(now) == [ty |-> "string", n |-> now, s |-> "now"]

ValidNumber(v) == v.ty = "number" /\ v.n > 0

\* The body of parsed.map in the load effect, for an element that is not null.
\* suffix is what Math.random() gives when the element has no id.
ValidateItem(item, now, suffix, lenient) ==
  [k |-> "object",
   id |-> IF Truthy(item.id) THEN item.id ELSE GenId(now, suffix),
   timestamp |-> IF Truthy(item.timestamp) THEN NewDate(item.timestamp, lenient)
                ELSE DateOf(now),
   ping |-> IF ValidNumber(item.ping)
            THEN Num(Min(Max(item.ping.n, 100), 99900)) ELSE Num(2500),
   download |-> IF ValidNumber(item.download)
                THEN Num(Max(item.download.n, 10)) ELSE Num(1500),
   upload |-> IF ValidNumber(item.upload)
              THEN Num(Max(item.upload.n, 10)) ELSE Num(500),
   provider |-> IF ~Truthy(item.provider) \/ item.provider = Str("Unknown")
                    \/ item.provider = Str("Unknown ISP")
                THEN Str("Your ISP") ELSE item.provider,
   location |-> IF ~Truthy(item.location) \/ item.location = Str("Unknown")
                    \/ item.location = Str("Unknown, Unknown")
                THEN Str("Your Location") ELSE item.location,
   ip |-> IF ~Truthy(item.ip) \/ item.ip = Str("Unknown")
          THEN Str("192.168.1.X") ELSE item.ip]

\* JSON.stringify of one history entry followed by JSON.parse: a Date becomes
\* its toJSON text, every other field of the model's entries is kept.
StringifyItem(e) ==
  [e EXCEPT !.timestamp = IF e.timestamp.ty = "date" THEN DateToJSON(e.timestamp)
                          ELSE e.timestamp]

\* localStorage values: the key is absent, or holds a text that is empty, is
\* not JSON ("garbage"), is JSON but no array ("scalar"), or is a JSON array.
Absent == [t |-> "absent", items |-> << >>]
EmptyText == [t |-> "empty", items |-> << >>]
Garbage == [t |-> "garbage", items |-> << >>]
Scalar == [t |-> "scalar", items |-> << >>]
ArrayText(items) == [t |-> "array", items |-> items]

\* JSON.stringify(list)
Stringify(h) == ArrayText([j \in 1..Len(h) |-> StringifyItem(h[j])])

\* Array.prototype.slice(0, n)
Slice(h, n) == SubSeq(h, 1, Min(Len(h), n))

\* --------------------------------------------------------- display values

\* The metric strings: '-', 'N/A', '--', or the text of a number (hundredths).
Dash == [s |-> "-", n |-> 0]
NA == [s |-> "N/A", n |-> 0]
ErrMark == [s |-> "--", n |-> 0]
NaNText == [s |-> "NaN", n |-> 0]
InfinityText == [s |-> "Infinity", n |-> 0]
Shown(n) == [s |-> "number", n |-> n]

\* The quotient num / den in tenths, rounded to the nearest and up from the
\* middle.
RoundHalfUp(num, den) == (20 * num + den) \div (2 * den)

\* The quotient num / den lies in the middle between two tenths.
IsTie(num, den) == (20 * num) % (2 * den) = den

\* x.toFixed(1) of the double x the code computes for num / den (num >= 0,
\* den >= 0): the texts it can give.  toFixed rounds the exact value of x to
\* the nearest tenth.  The weights, the factors and the quotients the code
\* computes with are no exact doubles, so x can lie on either side of a
\* quotient in the middle between two tenths, and the text is one of the
\* two; a divisor of 1 is no division.  A zero divisor gives the text of
\* NaN (0/0) or Infinity.
ToFixed1(num, den) ==
  IF den = 0 THEN { IF num = 0 THEN NaNText ELSE InfinityText }
  ELSE LET up == RoundHalfUp(num, den)
       IN IF den > 1 /\ IsTie(num, den)
          THEN { Shown(10 * (up - 1)), Shown(10 * up) }
          ELSE { Shown(10 * up) }

\* ---------------------------------------------------- latency aggregation

\* pingEndpoints: the probe type and the weight (tenths) of endpoint k mod 6.
EndpointType(k) == << "http", "http", "http", "http", "ws", "img" >>[(k % 6) + 1]
EndpointWeight(k) == << 12, 10, 9, 8, 15, 7 >>[(k % 6) + 1]

\* httpPing and imgPing cap the measured time at 800 ms; wsPing does not.
ProbeTime(type, raw) == IF type = "ws" THEN raw ELSE Min(raw, 800)

RECURSIVE SumValueWeight(_)
\* reduce((sum, item) => sum + item.value * item.weight, 0)
SumValueWeight(list) ==
  IF list = << >> THEN 0
  ELSE Head(list).value * Head(list).weight + SumValueWeight(Tail(list))

RECURSIVE SumWeight(_)
\* reduce((sum, item) => sum + item.weight, 0)
SumWeight(list) ==
  IF list = << >> THEN 0 ELSE Head(list).weight + SumWeight(Tail(list))

\* The live estimates a successful probe can give: each weight is the endpoint
\* weight times the recency weight (idx + 1) / length; the common divisor
\* length cancels in the quotient.
LiveAverage(wr) ==
  LET combined == [k \in 1..Len(wr) |-> [value |-> wr[k].value, weight |-> wr[k].weight * k]]
  IN ToFixed1(SumValueWeight(combined), SumWeight(combined))

\* pingValues.sort((a, b) => a - b): rank[j] is the position of list[j] in the
\* sorted list (equal values keep their order), and position k of the result
\* holds the value of rank k.  The ranks and the result are built as tuples
\* (<< >> \o f) and the ranks are bound by a set constructor, so that each
\* is computed once, not at each application.
SortAsc(list) ==
  LET n == Len(list)
      ranks == [j \in 1..n |->
                  1 + Cardinality({i \in 1..n : \/ list[i] < list[j]
                                                \/ (list[i] = list[j] /\ i < j)})]
  IN CHOOSE sorted \in
       { << >> \o [k \in 1..n |-> list[CHOOSE j \in 1..n : rank[j] = k]] :
           rank \in { << >> \o ranks } } : TRUE

Values(wr) == [k \in 1..Len(wr) |-> wr[k].value]

\* q1 and q3: pingValues[Math.floor(length * 0.25)] and [Math.floor(length * 0.75)]
\* of the sorted values.
Quartile1(pingValues) == pingValues[(Len(pingValues) \div 4) + 1]
Quartile3(pingValues) == pingValues[((3 * Len(pingValues)) \div 4) + 1]

\* lowerBound and upperBound times two: 2 * max(0, q1 - 1.5 iqr) and
\* 2 * (q3 + 1.5 iqr).
LowerBound2(q1, q3) == Max(0, 2 * q1 - 3 * (q3 - q1))
UpperBound2(q1, q3) == 2 * q3 + 3 * (q3 - q1)

\* A variant of the filter that leaves out the samples on the bounds.
FilteredPingsStrict(wr) ==
  LET pingValues == SortAsc(Values(wr))
      q1 == Quartile1(pingValues)
      q3 == Quartile3(pingValues)
      lower2 == LowerBound2(q1, q3)
      upper2 == UpperBound2(q1, q3)
      inBounds(item) == 2 * item.value > lower2 /\ 2 * item.value < upper2
  IN SelectSeq(wr, inBounds)

\* filteredPings: the samples inside the IQR bounds, for a list of 3 or more.
FilteredPings(wr) ==
  LET pingValues == SortAsc(Values(wr))
      q1 == Quartile1(pingValues)
      q3 == Quartile3(pingValues)
      lower2 == LowerBound2(q1, q3)
      upper2 == UpperBound2(q1, q3)
      inBounds(item) == 2 * item.value >= lower2 /\ 2 * item.value <= upper2
  IN SelectSeq(wr, inBounds)

\* fastPings and slowPings of the raw samples.
FastPings(pingValues) == Cardinality({k \in 1..Len(pingValues) : pingValues[k] < 20})
SlowPings(pingValues) == Cardinality({k \in 1..Len(pingValues) : pingValues[k] > 100})

\* A variant of the adjustment that tests the slow samples first.
FactorSlowFirst(pingValues) ==
  IF 10 * SlowPings(pingValues) > 3 * Len(pingValues) THEN 105
  ELSE IF 2 * FastPings(pingValues) > Len(pingValues) THEN 95 ELSE 100

\* The factor of adjustedPing, in hundredths: 0.95, 1.05 or 1.
Factor(pingValues) ==
  IF 2 * FastPings(pingValues) > Len(pingValues) THEN 95
  ELSE IF 10 * SlowPings(pingValues) > 3 * Len(pingValues) THEN 105 ELSE 100

\* The final values runPingTest can compute from its samples, before the
\* fixed value is written over it.
FinalPing(wr) ==
  LET pingValues == SortAsc(Values(wr))
      len == Len(pingValues)
  IN IF len >= 3
     THEN LET filteredPings == FilteredPings(wr)
          IN IF Len(filteredPings) > 0
             THEN ToFixed1(SumValueWeight(filteredPings) * Factor(pingValues),
                           SumWeight(filteredPings) * 100)
             ELSE ToFixed1(pingValues[(len \div 2) + 1], 1)
     ELSE IF len > 0
     THEN ToFixed1(SumValueWeight(wr), SumWeight(wr))
     ELSE { Shown(3500) }

\* The status chosen from parseFloat(ping), ping being the value the run's
\* closure holds; a text that is no number parses to NaN and fails every test.
PingQualityStatus(p) ==
  IF p.s # "number" THEN "Higher ping detected. This may affect speed."
  ELSE IF p.n < 2000 THEN "Excellent ping detected! (< 20ms)"
  ELSE IF p.n < 5000 THEN "Good ping detected! (< 50ms)"
  ELSE IF p.n < 10000 THEN "Average ping detected. (< 100ms)"
  ELSE "Higher ping detected. This may affect speed."

\* ------------------------------------------------------------- throughput

\* (bytes / (ms / 1000) / (1024 * 1024)) * 8, bytes given in MiB, toFixed(1):
\* the texts it can give.
SpeedText(mib, ms) == ToFixed1(mib * 8000, ms)

\* progressPercent and easedProgress, in units of 1/200 percent.
EasedProgress(elapsed) ==
  LET pp == Min(20000, 2 * elapsed)
  IN IF pp < 18000 THEN pp ELSE 18000 + (pp - 18000) \div 2

\* A variant that leaves out the start of the stage.
StageProgressOnly(stageStart, stageEnd, sp200) ==
  { (2 * (stageEnd - stageStart) * sp200 + 20000) \div 40000 }

\* A variant that cuts the fraction off instead of rounding.
OverallProgressTruncated(stageStart, stageEnd, sp200) ==
  { (stageStart * 20000 + (stageEnd - stageStart) * sp200) \div 20000 }

\* The stage bounds startTest passes to runPingTest, runDownloadTest and
\* runUploadTest.
StageBounds == { << 0, 10 >>, << 10, 60 >>, << 60, 100 >> }

\* updateOverallProgress: the values that
\* Math.round(stageStart + range * (stageProgress / 100)) can give,
\* stageProgress in units of 1/200 percent.  Math.round rounds the double the
\* code computes, a half up.  Where the exact value is a half, the double is
\* that half when stageProgress / 100 is an exact double (stageProgress a
\* multiple of 3.125) and, for the bounds startTest passes, at each 1/200
\* percent; for other bounds it can lie just below the half, and the value
\* is then the integer below.
OverallProgress(stageStart, stageEnd, sp200) ==
  LET exact == stageStart * 20000 + (stageEnd - stageStart) * sp200
      up == (2 * exact + 20000) \div 40000
      half == (2 * exact) % 40000 = 20000
  IN IF half /\ << stageStart, stageEnd >> \notin StageBounds /\ sp200 % 625 # 0
     THEN { up - 1, up } ELSE { up }

\* The outcomes of the test currentSpeedMbps > limit on the double computed
\* for mib MiB in ms ms (ms > 0).  For a speed that is the limit exactly the
\* double is the limit when ms / 1000 is an exact double (ms a multiple of
\* 125); otherwise it can lie on either side of it.
Exceeds(mib, ms, limit) ==
  IF mib * 8000 = limit * ms /\ ms % 125 # 0 THEN BOOLEAN
  ELSE { mib * 8000 > limit * ms }

\* The status texts a progress update of runDownloadTest can set.
DownloadStatus(mib, ms) ==
  IF ms = 0 THEN { IF mib > 0 THEN "Excellent download speed detected!"
                   ELSE "Measuring download speed..." }
  ELSE { IF over50 THEN "Excellent download speed detected!"
         ELSE IF over25 THEN "Good download speed detected!"
         ELSE IF over10 THEN "Download speed is stable..."
         ELSE "Measuring download speed..." :
           over50 \in Exceeds(mib, ms, 50), over25 \in Exceeds(mib, ms, 25),
           over10 \in Exceeds(mib, ms, 10) }

\* The status texts a progress update of runUploadTest can set.
UploadStatus(mib, ms) ==
  IF ms = 0 THEN { IF mib > 0 THEN "Great upload speed!" ELSE "Measuring upload speed..." }
  ELSE { IF over20 THEN "Great upload speed!"
         ELSE IF over10 THEN "Upload speed is good..."
         ELSE "Measuring upload speed..." :
           over20 \in Exceeds(mib, ms, 20), over10 \in Exceeds(mib, ms, 10) }

\* ------------------------------------------------------ component state

cleanupDelay == 500

Placeholder(text) == [provider |-> text, location |-> text, ip |-> text]

\* The setServerInfo endings of fetchIPInfo.  An answer of ipinfo.io or of
\* ipapi.co gives the provider and the location it names, with "Your ISP",
\* "Your City" and "Your Region" for the parts it leaves out.
AnsweredInfo(provider, location) ==
  [provider |-> provider, location |-> location, ip |-> "203.0.113.7"]
AnsweredProviders == { "Example ISP", "Your ISP" }
AnsweredLocations ==
  { "Paris, FR", "Paris, Your Region", "Your City, FR", "Your City, Your Region" }
\* jsonip.com answered and ipinfo.io failed, or only ipify answered.
AddressOnlyInfo ==
  [provider |-> "Your Internet Provider", location |-> "Your Location",
   ip |-> "203.0.113.7"]
\* Every service failed.
FallbackInfo ==
  [provider |-> "Local Network", location |-> "Your Location", ip |-> "192.168.1.X"]

ResolvedInfos ==
  { AnsweredInfo(p, l) : p \in AnsweredProviders, l \in AnsweredLocations }
    \cup { AddressOnlyInfo, FallbackInfo }

NoSignal == [id |-> 0, aborted |-> FALSE]
NoClosure ==
  [ping |-> Dash, downloadSpeed |-> Dash, uploadSpeed |-> Dash,
   testHistory |-> << >>, serverInfo |-> Placeholder("Loading...")]

\* The frame of startTest and of the stage function it awaits.  pc is the
\* await the run is suspended at; c holds the state values of the render
\* whose startTest was invoked; signal is the run's AbortController;
\* abortStage records the stage in which abort() first reached that
\* controller; finalTime is the local of that name of a throughput stage
\* function, alive during the pause that ends the function; the other final*
\* fields are the values the stages computed from their measurements.
NoRun ==
  [pc |-> "none", c |-> NoClosure, signal |-> NoSignal, abortStage |-> "none",
   i |-> 0, fails |-> 0, weightedResults |-> << >>,
   bytes |-> 0, now |-> 0, startTime |-> 0, lastProgressTime |-> 0, instant |-> 0,
   finalTime |-> 0,
   finalPing |-> Dash, finalDownload |-> Dash, finalUpload |-> Dash]

\* The locals of a stage function are gone when the function returns.
StageLocals(r) ==
  [r EXCEPT !.i = 0, !.fails = 0, !.weightedResults = << >>, !.bytes = 0, !.now = 0,
            !.startTime = 0, !.lastProgressTime = 0, !.instant = 0]

RunActive == run.pc \notin {"none", "ended"}

\* The useState initial values and the empty ref of a fresh page.
FreshPage ==
  /\ mounted = FALSE
  /\ currentView = "test"
  /\ isTesting = FALSE
  /\ currentTest = "idle"
  /\ progress = 0
  /\ testStatus = "Ready to test your speed"
  /\ ping = Dash
  /\ downloadSpeed = Dash
  /\ uploadSpeed = Dash
  /\ testHistory = << >>
  /\ abortControllerRef = 0
  /\ serverInfo = Placeholder("Loading...")
  /\ cleanupTimer = FALSE
  /\ run = NoRun

\* ------------------------------------------------------- persisted inputs

GoodItem ==
  Obj(Str("a"), Num(4200), Num(9450), Num(1230), Str("Paris, FR"),
      Str("Example ISP"), Str("203.0.113.7"), IsoStr(0))
\* ping -5, download 0.05, upload a text, sentinel or empty strings, no id, no timestamp
BrokenItem ==
  Obj(Undef, Num(-500), Num(5), Str("fast"), Str("Unknown, Unknown"),
      Str("Unknown"), Str(""), Undef)
\* ping 1000 and 0.5 Mbps upload, the fields of an older format
OldItem ==
  Obj(Str("b"), Num(100000), Num(0), Num(50), Str("Unknown"),
      Str("Unknown ISP"), Str("Unknown"), IsoStr(0))
\* a timestamp text that is no date
BadDateItem == [GoodItem EXCEPT !.timestamp = Str("yesterday"), !.ping = Num(50)]
\* the timestamp "1970-01-02", and the timestamp "Jan 2, 1970 00:00:00 GMT"
StandardDateItem == [GoodItem EXCEPT !.timestamp = StandardDateStr(86400000)]
LegacyDateItem == [GoodItem EXCEPT !.timestamp = LegacyDateStr(86400000)]
\* an entry that holds the lookup placeholder
PlaceholderItem == [GoodItem EXCEPT !.provider = Str("Detecting...")]

PersistedItems ==
  { GoodItem, BrokenItem, OldItem, BadDateItem, PlaceholderItem, JsonNull, JsonPrim }

RECURSIVE SeqsUpTo(_, _)
SeqsUpTo(S, n) ==
  IF n = 0 THEN { << >> }
  ELSE LET shorter == SeqsUpTo(S, n - 1)
       IN shorter \cup { Append(q, x) : q \in shorter, x \in S }

\* A stored list of one entry more than saveTestToHistory keeps, as a store
\* written outside of saveTestToHistory holds it.
LongList == [j \in 1..(HistoryCap + 1) |-> [GoodItem EXCEPT !.id = NowId(j)]]

\* A stored list of two entries without id.
UnnamedPair == << BrokenItem, JsonPrim >>

\* What localStorage can hold when the page is opened.
InitialStores ==
  { Absent, EmptyText, Garbage, Scalar, ArrayText(LongList), ArrayText(UnnamedPair),
    ArrayText(<< StandardDateItem >>), ArrayText(<< LegacyDateItem >>) }
    \cup { ArrayText(q) : q \in SeqsUpTo(PersistedItems, MaxStored) }

\* -------------------------------------------------------------- the mount

\* The suffixes Math.random() can give to the elements of a stored list: one
\* draw for every element without id.
RECURSIVE DrawsFor(_, _)
DrawsFor(items, n) ==
  IF n = 0 THEN { << >> }
  ELSE { Append(q, r) : q \in DrawsFor(items, n - 1),
                        r \in IF Truthy(items[n].id) THEN { "" } ELSE RandomSuffixes }
RandomDraws(saved) == DrawsFor(saved.items, Len(saved.items))

\* The history load effect: the new (testHistory, storage) for the stored
\* text, with the suffix draws[j] for element j, in a runtime whose date
\* parser is lenient or not.
LoadHistory(saved, now, draws, lenient) ==
  IF saved.t \in {"absent", "empty"}
  THEN [history |-> << >>, storage |-> saved]
  ELSE IF saved.t # "array" \/ \E j \in 1..Len(saved.items) : saved.items[j].k = "null"
  THEN [history |-> << >>, storage |-> Absent]
  ELSE LET validatedHistory ==
             [j \in 1..Len(saved.items) |->
                ValidateItem(saved.items[j], now, draws[j], lenient)]
       IN [history |-> validatedHistory, storage |-> Stringify(validatedHistory)]

\* First render and its three effects: fetchIPInfo up to its first await, the
\* history load, and the cleanup timer.
Mount ==
  /\ ~mounted
  /\ mounted' = TRUE
  /\ serverInfo' = Placeholder("Detecting...")
  /\ \E draws \in RandomDraws(storage), lenient \in DateParsers :
       LET loaded == LoadHistory(storage, clock, draws, lenient)
       IN /\ testHistory' = loaded.history
          /\ storage' = loaded.storage
  /\ cleanupTimer' = TRUE
  /\ UNCHANGED << currentView, isTesting, currentTest, progress, testStatus, ping,
                  downloadSpeed, uploadSpeed, abortControllerRef, clock, run >>

\* fetchIPInfo ends with one of its setServerInfo calls, with an outcome of
\* infos.
IpResolved(infos) ==
  /\ mounted
  /\ serverInfo = Placeholder("Detecting...")
  /\ serverInfo' \in infos
  /\ UNCHANGED << mounted, currentView, isTesting, currentTest, progress, testStatus,
                  ping, downloadSpeed, uploadSpeed, testHistory, abortControllerRef,
                  storage, cleanupTimer, clock, run >>

EntryTruthy(e) == Truthy(e.provider) /\ Truthy(e.location) /\ Truthy(e.ip)

\* cleanupHistory applied to the testHistory its closure holds.
CleanupHistory(h) ==
  LET valid(e) == e.ping.n > 0 /\ e.download.n > 0 /\ e.upload.n > 0 /\ EntryTruthy(e)
      validEntries == SelectSeq(h, valid)
  IN [j \in 1..Len(validEntries) |->
        LET e == validEntries[j]
        IN [e EXCEPT !.ping = Num(Max(e.ping.n, 100)),
                     !.download = Num(Max(e.download.n, 10)),
                     !.upload = Num(Max(e.upload.n, 10)),
                     !.provider = IF e.provider = Str("Unknown")
                                     \/ e.provider = Str("Unknown ISP")
                                  THEN Str("Your ISP") ELSE e.provider,
                     !.location = IF e.location = Str("Unknown, Unknown")
                                  THEN Str("Your Location") ELSE e.location]]

\* The testHistory that the cleanupHistory of the first render reads: the
\* timer callback was created by the mount effect of that render, where
\* testHistory is the useState initial value.
MountClosureHistory == << >>

\* The 500 ms timer of the cleanup effect fires.
CleanupTimerFires ==
  /\ mounted
  /\ cleanupTimer
  /\ cleanupTimer' = FALSE
  /\ LET fixedEntries == CleanupHistory(MountClosureHistory)
     IN /\ testHistory' = fixedEntries
        /\ storage' = Stringify(fixedEntries)
  /\ UNCHANGED << mounted, currentView, isTesting, currentTest, progress, testStatus,
                  ping, downloadSpeed, uploadSpeed, abortControllerRef, serverInfo,
                  clock, run >>

\* The page is reloaded: every state of the component is lost, the run with
\* it; localStorage and the wall clock stay.
Reload ==
  /\ mounted
  /\ mounted' = FALSE
  /\ currentView' = "test"
  /\ isTesting' = FALSE
  /\ currentTest' = "idle"
  /\ progress' = 0
  /\ testStatus' = "Ready to test your speed"
  /\ ping' = Dash
  /\ downloadSpeed' = Dash
  /\ uploadSpeed' = Dash
  /\ testHistory' = << >>
  /\ abortControllerRef' = 0
  /\ serverInfo' = Placeholder("Loading...")
  /\ cleanupTimer' = FALSE
  /\ run' = NoRun
  /\ UNCHANGED << storage, clock >>

\* ------------------------------------------------------------ the buttons

ShowHistory ==
  /\ mounted
  /\ currentView = "test"
  /\ currentView' = "history"
  /\ UNCHANGED << mounted, isTesting, currentTest, progress, testStatus, ping,
                  downloadSpeed, uploadSpeed, testHistory, abortControllerRef,
                  serverInfo, storage, cleanupTimer, clock, run >>

BackToTest ==
  /\ mounted
  /\ currentView = "history"
  /\ currentView' = "test"
  /\ UNCHANGED << mounted, isTesting, currentTest, progress, testStatus, ping,
                  downloadSpeed, uploadSpeed, testHistory, abortControllerRef,
                  serverInfo, storage, cleanupTimer, clock, run >>

\* A variant of Clear History that empties the state and keeps the store.
ClearAllHistoryMemoryOnly ==
  /\ mounted
  /\ currentView = "history"
  /\ testHistory' = << >>
  /\ UNCHANGED << mounted, currentView, isTesting, currentTest, progress, testStatus,
                  ping, downloadSpeed, uploadSpeed, abortControllerRef, serverInfo,
                  cleanupTimer, clock, run, storage >>

\* Clear History, confirmed.
ClearAllHistory ==
  /\ mounted
  /\ currentView = "history"
  /\ testHistory' = << >>
  /\ storage' = Absent
  /\ UNCHANGED << mounted, currentView, isTesting, currentTest, progress, testStatus,
                  ping, downloadSpeed, uploadSpeed, abortControllerRef, serverInfo,
                  cleanupTimer, clock, run >>

\* A variant in which GO is rendered and enabled whatever the stage.
GoButtonAlways == currentView = "test"

\* The GO button is rendered in the test view while currentTest is idle and
\* is disabled while isTesting.
GoButtonEnabled == currentView = "test" /\ currentTest = "idle" /\ ~isTesting

\* Abort Test is rendered in the test view while isTesting.
AbortButtonShown == currentView = "test" /\ isTesting

\* Test Again is rendered in the test view when no run is active and
\* currentTest is complete.
TestAgainShown == currentView = "test" /\ ~isTesting /\ currentTest = "complete"

\* abortControllerRef.current.abort() evaluated on target: calling a method
\* of null is a TypeError; abort() of a controller returns, whether or not
\* its signal is aborted already.
AbortCallThrows(target) == target = 0

\* A variant of abortTest without the test of the ref.
AbortTestThrowsUnguarded(ref) == AbortCallThrows(ref)

\* abortTest raises an error: abort() is called only when the ref holds a
\* controller.
AbortTestThrows(ref) == ref # 0 /\ AbortCallThrows(ref)

\* abortTest: the frame of the run after abortControllerRef.current.abort(),
\* which is called only when the ref holds a controller.
AbortedRun(r, ref, stage) ==
  IF ref # 0 /\ r.signal.id = ref
  THEN [r EXCEPT !.signal.aborted = TRUE,
                 !.abortStage = IF r.signal.aborted THEN @ ELSE stage]
  ELSE r

\* A variant of the onClick of Test Again that empties the history as well.
ResetClearingHistory ==
  /\ mounted
  /\ TestAgainShown
  /\ currentTest' = "idle"
  /\ ping' = Dash
  /\ downloadSpeed' = Dash
  /\ uploadSpeed' = Dash
  /\ progress' = 0
  /\ testStatus' = "Ready to test your speed"
  /\ run' = NoRun
  /\ testHistory' = << >>
  /\ UNCHANGED << mounted, currentView, isTesting, abortControllerRef,
                  serverInfo, storage, cleanupTimer, clock >>

\* The onClick of Test Again.
ResetAfterCompletion ==
  /\ mounted
  /\ TestAgainShown
  /\ currentTest' = "idle"
  /\ ping' = Dash
  /\ downloadSpeed' = Dash
  /\ uploadSpeed' = Dash
  /\ progress' = 0
  /\ testStatus' = "Ready to test your speed"
  /\ run' = NoRun
  /\ UNCHANGED << mounted, currentView, isTesting, testHistory, abortControllerRef,
                  serverInfo, storage, cleanupTimer, clock >>

\* ---------------------------------------------------------------- the run

\* saveTestToHistory: the new result in front of the testHistory the closure
\* holds, cut to the cap.
NewResult(info, now) ==
  LET shown(text, default) ==
        IF text = "Loading..." \/ text = "Detecting..." THEN Str(default) ELSE Str(text)
  IN [k |-> "object", id |-> NowId(now), ping |-> Num(18500), download |-> Num(26000),
      upload |-> Num(1200),
      location |-> shown(info.location, "Your Location"),
      provider |-> shown(info.provider, "Your ISP"),
      ip |-> shown(info.ip, "Your IP"),
      timestamp |-> DateOf(now)]

\* A variant that keeps a full list as it is.
UpdatedHistoryKeepsOldest(newResult, closureHistory) ==
  IF Len(closureHistory) >= HistoryCap THEN closureHistory
  ELSE << newResult >> \o closureHistory

UpdatedHistory(newResult, closureHistory) ==
  Slice(<< newResult >> \o closureHistory, HistoryCap)

\* A variant of the finally block that keeps the controller in the ref.
FinallyKeepingHandle ==
  /\ isTesting' = FALSE
  /\ abortControllerRef' = abortControllerRef
  /\ progress' = 100

\* The finally block of startTest.
Finally ==
  /\ isTesting' = FALSE
  /\ abortControllerRef' = 0
  /\ progress' = 100

\* The metric shown after the catch block: mark is written when the value
\* the closure holds for the metric is '-'.
AfterCatch(closureValue, shown, mark) == IF closureValue = Dash THEN mark ELSE shown

\* A variant of the cancelled ending that saves the result all the same.
EndAbortedSaving(r, shownDownload, shownUpload) ==
  /\ testStatus' = "Test stopped safely"
  /\ currentTest' = "idle"
  /\ ping' = AfterCatch(r.c.ping, ping, NA)
  /\ downloadSpeed' = AfterCatch(r.c.downloadSpeed, shownDownload, NA)
  /\ uploadSpeed' = AfterCatch(r.c.uploadSpeed, shownUpload, NA)
  /\ LET updatedHistory == UpdatedHistory(NewResult(r.c.serverInfo, clock),
                                          r.c.testHistory)
     IN /\ testHistory' = updatedHistory
        /\ storage' = Stringify(updatedHistory)
  /\ Finally
  /\ run' = [StageLocals(r) EXCEPT !.pc = "ended"]
  /\ UNCHANGED << mounted, currentView, serverInfo, cleanupTimer, clock >>

\* catch (error) with error.name === 'AbortError', and finally, in the run
\* with the frame r.  shownDownload and shownUpload are the speeds set before
\* the catch block in the same task.
EndAborted(r, shownDownload, shownUpload) ==
  /\ testStatus' = "Test stopped safely"
  /\ currentTest' = "idle"
  /\ ping' = AfterCatch(r.c.ping, ping, NA)
  /\ downloadSpeed' = AfterCatch(r.c.downloadSpeed, shownDownload, NA)
  /\ uploadSpeed' = AfterCatch(r.c.uploadSpeed, shownUpload, NA)
  /\ Finally
  /\ run' = [StageLocals(r) EXCEPT !.pc = "ended"]
  /\ UNCHANGED << mounted, currentView, testHistory, serverInfo, storage,
                  cleanupTimer, clock >>

\* catch (error) with any other error, and finally.
EndFailed ==
  /\ testStatus' = "Connection issue detected - no worries!"
  /\ currentTest' = "idle"
  /\ ping' = AfterCatch(run.c.ping, ping, ErrMark)
  /\ downloadSpeed' = AfterCatch(run.c.downloadSpeed, downloadSpeed, ErrMark)
  /\ uploadSpeed' = AfterCatch(run.c.uploadSpeed, uploadSpeed, ErrMark)
  /\ Finally
  /\ run' = [StageLocals(run) EXCEPT !.pc = "ended"]
  /\ UNCHANGED << mounted, currentView, testHistory, serverInfo, storage,
                  cleanupTimer, clock >>

\* A variant in which the download is fetched without the signal of the run:
\* the cancellation rejects nothing and the run r waits for its download.
DlAbortedIgnored(r, shownDownload) ==
  /\ r.pc \in {"dl_fetch", "dl_read"}
  /\ r.signal.aborted
  /\ currentTest' = "download"
  /\ testStatus' = IF currentTest = "ping" THEN "Starting download speed test..."
                   ELSE testStatus
  /\ downloadSpeed' = shownDownload
  /\ run' = r
  /\ UNCHANGED << mounted, currentView, isTesting, progress, ping, uploadSpeed,
                  testHistory, abortControllerRef, serverInfo, storage, cleanupTimer,
                  clock >>

\* fetch(downloadUrl, { signal }) or reader.read() of the run r rejects with
\* the AbortError of the signal, which runDownloadTest throws again.  The
\* rejection follows the abort() in the same task, and at once a fetch that
\* is given a signal that is aborted already.
DlAborted(r, shownDownload) ==
  /\ r.pc \in {"dl_fetch", "dl_read"}
  /\ r.signal.aborted
  /\ EndAborted(r, shownDownload, uploadSpeed)

\* The POST of the run r rejects with the AbortError of the signal, which
\* runUploadTest throws again, in the same task as the abort() or at once.
UlAborted(r, shownUpload) ==
  /\ r.pc = "ul_fetch"
  /\ r.signal.aborted
  /\ EndAborted(r, downloadSpeed, shownUpload)

\* Abort Test is clicked.  While the fetch or a read of the download or the
\* POST of the upload is pending, the rejection, the catch block and the
\* finally block of startTest run in the task of the click; the probes, the
\* delay between them and the pauses do not take the signal of the run.
AbortTest ==
  /\ mounted
  /\ AbortButtonShown
  /\ ~AbortTestThrows(abortControllerRef)
  /\ LET r == AbortedRun(run, abortControllerRef, currentTest)
     IN IF r.signal.aborted /\ r.pc \in {"dl_fetch", "dl_read"}
        THEN DlAborted(r, downloadSpeed)
        ELSE IF r.signal.aborted /\ r.pc = "ul_fetch"
        THEN UlAborted(r, uploadSpeed)
        ELSE /\ run' = r
             /\ UNCHANGED << mounted, currentView, isTesting, currentTest, progress,
                             testStatus, ping, downloadSpeed, uploadSpeed, testHistory,
                             abortControllerRef, serverInfo, storage, cleanupTimer,
                             clock >>

\* The name of the error that runPingTest throws when a probe fails after
\* the signal was aborted: new Error('AbortError') has the name 'Error'.
PingAbortErrorName == "Error"

\* A variant of startTest that resets the ping only and leaves the download
\* and upload values on the display.
StartTestKeepingMetrics(limit) ==
  /\ mounted
  /\ GoButtonEnabled
  /\ clock < limit
  /\ clock' = clock + 1
  /\ ping' = Shown(18500)
  /\ progress' = 0
  /\ testStatus' = "Measuring network latency..."
  /\ isTesting' = TRUE
  /\ abortControllerRef' = clock'
  /\ currentTest' = "ping"
  /\ run' = [NoRun EXCEPT
               !.pc = "ping_probe",
               !.signal = [id |-> clock', aborted |-> FALSE],
               !.c = [ping |-> ping, downloadSpeed |-> downloadSpeed,
                      uploadSpeed |-> uploadSpeed, testHistory |-> testHistory,
                      serverInfo |-> serverInfo]]
  /\ UNCHANGED << downloadSpeed, uploadSpeed, mounted, currentView, testHistory, serverInfo, storage, cleanupTimer >>

\* GO is clicked: startTest up to the first await (the first probe of
\* runPingTest).  No run is started once the clock has reached limit.
StartTest(limit) ==
  /\ mounted
  /\ GoButtonEnabled
  /\ clock < limit
  /\ clock' = clock + 1
  /\ ping' = Shown(18500)
  /\ downloadSpeed' = Dash
  /\ uploadSpeed' = Dash
  /\ progress' = 0
  /\ testStatus' = "Measuring network latency..."
  /\ isTesting' = TRUE
  /\ abortControllerRef' = clock'
  /\ currentTest' = "ping"
  /\ run' = [NoRun EXCEPT
               !.pc = "ping_probe",
               !.signal = [id |-> clock', aborted |-> FALSE],
               !.c = [ping |-> ping, downloadSpeed |-> downloadSpeed,
                      uploadSpeed |-> uploadSpeed, testHistory |-> testHistory,
                      serverInfo |-> serverInfo]]
  /\ UNCHANGED << mounted, currentView, testHistory, serverInfo, storage, cleanupTimer >>

\* A probe resolves with a time of raw ms.
PingProbeOk(raws) ==
  /\ run.pc = "ping_probe"
  /\ \E raw \in raws :
       LET pingTime == ProbeTime(EndpointType(run.i), raw)
           wr == Append(run.weightedResults,
                        [value |-> pingTime, weight |-> EndpointWeight(run.i)])
       IN /\ run' = [run EXCEPT !.pc = "ping_delay", !.weightedResults = wr]
          /\ progress' \in OverallProgress(0, 10, (run.i + 1) * 2000)
          /\ ping' \in LiveAverage(wr)
  /\ UNCHANGED << mounted, currentView, isTesting, currentTest, testStatus,
                  downloadSpeed, uploadSpeed, testHistory, abortControllerRef,
                  serverInfo, storage, cleanupTimer, clock >>

\* A variant in which a failed probe ends the run.
PingProbeFailsFatal(limit) ==
  /\ run.pc = "ping_probe"
  /\ run.fails < limit
  /\ EndFailed

\* A probe rejects (timeout, connection error); at most limit probes of one
\* run do.
PingProbeFails(limit) ==
  /\ run.pc = "ping_probe"
  /\ run.fails < limit
  /\ IF run.signal.aborted
     THEN IF PingAbortErrorName = "AbortError"
          THEN EndAborted(run, downloadSpeed, uploadSpeed)
          ELSE EndFailed
     ELSE /\ testStatus' = "Optimizing latency measurement..."
          /\ run' = [run EXCEPT !.pc = "ping_delay", !.fails = @ + 1]
          /\ UNCHANGED << mounted, currentView, isTesting, currentTest, progress, ping,
                          downloadSpeed, uploadSpeed, testHistory, abortControllerRef,
                          serverInfo, storage, cleanupTimer, clock >>

PingProbeFail == PingProbeFails(MaxPingFail)

\* The delay after a probe ends: the next probe, or the end of the loop and
\* the final value, up to the first pause.
PingDelayDone ==
  /\ run.pc = "ping_delay"
  /\ IF run.i + 1 < numPings
     THEN /\ run' = [run EXCEPT !.pc = "ping_probe", !.i = @ + 1]
          /\ testStatus' = "Measuring network latency..."
          /\ ping' = ping
     ELSE /\ \E adjustedPing \in FinalPing(run.weightedResults) :
               run' = [StageLocals(run) EXCEPT !.pc = "ping_pause1",
                                               !.finalPing = adjustedPing]
          /\ ping' = Shown(18500)
          /\ testStatus' = "Connection quality: Good"
  /\ UNCHANGED << mounted, currentView, isTesting, currentTest, progress,
                  downloadSpeed, uploadSpeed, testHistory, abortControllerRef,
                  serverInfo, storage, cleanupTimer, clock >>

PingPause1Done ==
  /\ run.pc = "ping_pause1"
  /\ testStatus' = PingQualityStatus(run.c.ping)
  /\ run' = [run EXCEPT !.pc = "ping_pause2"]
  /\ UNCHANGED << mounted, currentView, isTesting, currentTest, progress, ping,
                  downloadSpeed, uploadSpeed, testHistory, abortControllerRef,
                  serverInfo, storage, cleanupTimer, clock >>

PingPause2Done ==
  /\ run.pc = "ping_pause2"
  /\ testStatus' = "Preparing download test..."
  /\ run' = [run EXCEPT !.pc = "ping_pause3"]
  /\ UNCHANGED << mounted, currentView, isTesting, currentTest, progress, ping,
                  downloadSpeed, uploadSpeed, testHistory, abortControllerRef,
                  serverInfo, storage, cleanupTimer, clock >>

\* The last pause of runPingTest ends; startTest enters the download stage
\* and runDownloadTest runs up to its fetch, which rejects at once when the
\* signal of the run is aborted.
PingPause3Done ==
  /\ run.pc = "ping_pause3"
  /\ IF run.signal.aborted
     THEN DlAborted([run EXCEPT !.pc = "dl_fetch"], Shown(26000))
     ELSE /\ currentTest' = "download"
          /\ testStatus' = "Starting download speed test..."
          /\ downloadSpeed' = Shown(26000)
          /\ run' = [run EXCEPT !.pc = "dl_fetch"]
          /\ UNCHANGED << mounted, currentView, isTesting, progress, ping, uploadSpeed,
                          testHistory, abortControllerRef, serverInfo, storage,
                          cleanupTimer, clock >>

\* An await that takes dt ms.  The cleanup timer was set at the mount, before
\* the run began, so it has fired once cleanupDelay ms of a stage have gone by;
\* at most MaxInstant awaits of a stage settle within the same millisecond.
TimePasses(dt) ==
  /\ dt >= cleanupDelay => ~cleanupTimer
  /\ dt = 0 => run.instant < MaxInstant

Instant(dt) == IF dt = 0 THEN 1 ELSE 0

\* fetch(downloadUrl) resolves with an ok response.
DlFetchOk(dts) ==
  /\ run.pc = "dl_fetch"
  /\ ~run.signal.aborted
  /\ \E dt \in dts :
       /\ TimePasses(dt)
       /\ run' = [run EXCEPT !.pc = "dl_read", !.now = dt, !.startTime = dt,
                             !.instant = @ + Instant(dt)]
  /\ UNCHANGED << mounted, currentView, isTesting, currentTest, progress, testStatus,
                  ping, downloadSpeed, uploadSpeed, testHistory, abortControllerRef,
                  serverInfo, storage, cleanupTimer, clock >>

\* The end of the read loop of runDownloadTest, finalTime ms after startTime,
\* up to the pause.
DlFinish(bytes, finalTime, r) ==
  /\ downloadSpeed' = Shown(26000)
  /\ progress' \in OverallProgress(10, 60, 20000)
  /\ testStatus' = "Download complete! Preparing upload test..."
  /\ \E finalDownloadSpeedMbps \in SpeedText(bytes, finalTime) :
       run' = [StageLocals(r) EXCEPT !.pc = "dl_pause",
                                     !.finalTime = finalTime,
                                     !.finalDownload = finalDownloadSpeedMbps]

\* reader.read() resolves with a chunk of size MiB, dt ms after the last one.
DlReadChunk(dts, sizes) ==
  /\ run.pc = "dl_read"
  /\ ~run.signal.aborted
  /\ \E dt \in dts, size \in sizes :
       LET downloadedBytes == run.bytes + size
           currentTime == run.now + dt
           elapsed == currentTime - run.startTime
           update == currentTime - run.lastProgressTime > 80
       IN /\ TimePasses(dt)
          /\ IF elapsed >= testDuration
             THEN DlFinish(downloadedBytes, elapsed, run)
             ELSE /\ run' = [run EXCEPT
                               !.bytes = downloadedBytes, !.now = currentTime,
                               !.instant = @ + Instant(dt),
                               !.lastProgressTime = IF update THEN currentTime ELSE @]
                  /\ downloadSpeed' \in IF update THEN SpeedText(downloadedBytes, elapsed)
                                        ELSE { downloadSpeed }
                  /\ progress' \in IF update
                                   THEN OverallProgress(10, 60, EasedProgress(elapsed))
                                   ELSE { progress }
                  /\ testStatus' \in IF update
                                     THEN DownloadStatus(downloadedBytes, elapsed)
                                     ELSE { testStatus }
  /\ UNCHANGED << mounted, currentView, isTesting, currentTest, ping, uploadSpeed,
                  testHistory, abortControllerRef, serverInfo, storage, cleanupTimer,
                  clock >>

\* reader.read() resolves with done: the stream has ended.
DlReadDone(dts) ==
  /\ run.pc = "dl_read"
  /\ ~run.signal.aborted
  /\ \E dt \in dts :
       /\ TimePasses(dt)
       /\ DlFinish(run.bytes, run.now + dt - run.startTime, run)
  /\ UNCHANGED << mounted, currentView, isTesting, currentTest, ping, uploadSpeed,
                  testHistory, abortControllerRef, serverInfo, storage, cleanupTimer,
                  clock >>

\* The fetch or the read rejects with a transport error, or the response is
\* not ok: runDownloadTest throws 'Download test failed'.
DlError ==
  /\ run.pc \in {"dl_fetch", "dl_read"}
  /\ ~run.signal.aborted
  /\ EndFailed

\* One turn of the while loop of runUploadTest from its top, at currentTime:
\* the loop ends, up to the pause, or the next POST is sent.
UlLoopTop(bytes, currentTime, lastProgressTime, instant, status) ==
  IF currentTime >= testDuration
  THEN /\ \E finalUploadSpeedMbps \in SpeedText(bytes, currentTime) :
            run' = [StageLocals(run) EXCEPT !.pc = "ul_pause",
                                            !.finalTime = currentTime,
                                            !.finalUpload = finalUploadSpeedMbps]
       /\ uploadSpeed' = Shown(1200)
       /\ progress' \in OverallProgress(60, 100, 20000)
       /\ testStatus' = "Upload test complete! Finalizing results..."
  ELSE /\ run' = [run EXCEPT !.pc = "ul_fetch", !.bytes = bytes, !.now = currentTime,
                             !.lastProgressTime = lastProgressTime, !.instant = instant]
       /\ testStatus' = status

\* The pause of runDownloadTest ends; startTest enters the upload stage and
\* runUploadTest runs up to its first POST, which rejects at once when the
\* signal of the run is aborted.
DlPauseDone ==
  /\ run.pc = "dl_pause"
  /\ IF run.signal.aborted
     THEN UlAborted([run EXCEPT !.pc = "ul_fetch", !.finalTime = 0], Shown(1200))
     ELSE /\ currentTest' = "upload"
          /\ uploadSpeed' = Shown(1200)
          /\ testStatus' = "Upload test in progress..."
          /\ run' = [run EXCEPT !.pc = "ul_fetch", !.finalTime = 0]
          /\ UNCHANGED << mounted, currentView, isTesting, progress, ping,
                          downloadSpeed, testHistory, abortControllerRef, serverInfo,
                          storage, cleanupTimer, clock >>

\* The POST resolves after dt ms.  currentTime and elapsed are the values
\* taken at the top of the loop, before the POST (startTime is 0).
UlFetchOk(dts) ==
  /\ run.pc = "ul_fetch"
  /\ ~run.signal.aborted
  /\ \E dt \in dts :
       LET uploadedBytes == run.bytes + 1
           currentTime == run.now
           elapsed == run.now
           update == currentTime - run.lastProgressTime > 80
       IN /\ TimePasses(dt)
          /\ IF run.now + dt >= testDuration
             THEN /\ UlLoopTop(uploadedBytes, run.now + dt, 0, 0, testStatus)
             ELSE /\ \E status \in IF update THEN UploadStatus(uploadedBytes, elapsed)
                                      ELSE { testStatus } :
                       UlLoopTop(uploadedBytes, run.now + dt,
                                 IF update THEN currentTime ELSE run.lastProgressTime,
                                 run.instant + Instant(dt), status)
                  /\ uploadSpeed' \in IF update THEN SpeedText(uploadedBytes, elapsed)
                                      ELSE { uploadSpeed }
                  /\ progress' \in IF update
                                   THEN OverallProgress(60, 100, EasedProgress(elapsed))
                                   ELSE { progress }
  /\ UNCHANGED << mounted, currentView, isTesting, currentTest, ping, downloadSpeed,
                  testHistory, abortControllerRef, serverInfo, storage, cleanupTimer,
                  clock >>

\* The POST rejects with a transport error after dt ms: the chunk is not
\* counted and the loop goes on.
UlFetchFail(dts) ==
  /\ run.pc = "ul_fetch"
  /\ ~run.signal.aborted
  /\ \E dt \in dts :
       /\ TimePasses(dt)
       /\ UlLoopTop(run.bytes, run.now + dt, run.lastProgressTime,
                    run.instant + Instant(dt), "Upload chunk failed, continuing...")
       /\ run.now + dt < testDuration => UNCHANGED << uploadSpeed, progress >>
  /\ UNCHANGED << mounted, currentView, isTesting, currentTest, ping, downloadSpeed,
                  testHistory, abortControllerRef, serverInfo, storage, cleanupTimer,
                  clock >>

\* The pause of runUploadTest ends; startTest completes, saves and runs finally.
Complete ==
  /\ run.pc = "ul_pause"
  /\ testStatus' = "Speed test completed successfully!"
  /\ currentTest' = "complete"
  /\ ping' = Shown(18500)
  /\ downloadSpeed' = Shown(26000)
  /\ uploadSpeed' = Shown(1200)
  /\ LET updatedHistory == UpdatedHistory(NewResult(run.c.serverInfo, clock),
                                          run.c.testHistory)
     IN /\ testHistory' = updatedHistory
        /\ storage' = Stringify(updatedHistory)
  /\ Finally
  /\ run' = [run EXCEPT !.pc = "ended", !.finalTime = 0]
  /\ UNCHANGED << mounted, currentView, serverInfo, cleanupTimer, clock >>

\* ----------------------------------------------------- the specifications

\* What the network does in the runs of Spec: the time a probe takes, the
\* time an await of a throughput stage takes, the size of a chunk read.
PingTimes == {40}
Dts == {0, 5000}
ReadSizes == {5}

\* What the network does in the runs of SpecHistory and SpecAppend.
SteadyDts == {5000}

\* The lookup outcomes of the specifications that follow whole runs: a full
\* answer and the fixed values.  SpecAppend takes every outcome.
MainInfos == { AnsweredInfo("Example ISP", "Paris, FR"), FallbackInfo }

\* The mount effects, the timers and the views.
PageStep(infos) ==
  \/ Mount
  \/ IpResolved(infos)
  \/ CleanupTimerFires
  \/ ShowHistory
  \/ BackToTest

\* The steps of a run in which no probe and no transfer fails, with awaits
\* that take the times dts.
RunStep(dts) ==
  \/ PingProbeOk(PingTimes)
  \/ PingDelayDone
  \/ PingPause1Done
  \/ PingPause2Done
  \/ PingPause3Done
  \/ DlFetchOk(dts)
  \/ DlReadChunk(dts, ReadSizes)
  \/ DlReadDone(dts)
  \/ DlPauseDone
  \/ UlFetchOk(dts)
  \/ Complete

\* The failures and the cancellation.
FailStep ==
  \/ AbortTest
  \/ PingProbeFail
  \/ DlError
  \/ UlFetchFail(Dts)

\* Spec: the whole component with every outcome of every await, opened on a
\* store that is absent or holds one valid entry.
MainStores == { Absent, ArrayText(<< GoodItem >>) }

Init ==
  /\ FreshPage
  /\ clock = 0
  /\ storage \in MainStores

Next ==
  \/ PageStep(MainInfos)
  \/ Reload
  \/ ClearAllHistory
  \/ StartTest(MaxRuns)
  \/ ResetAfterCompletion
  \/ RunStep(Dts)
  \/ FailStep

Spec == Init /\ [][Next]_vars

\* SpecHistory: the component opened on any store of InitialStores, with runs
\* that nothing interrupts.
InitHistory ==
  /\ FreshPage
  /\ clock = 0
  /\ storage \in InitialStores

NextHistory ==
  \/ PageStep(MainInfos)
  \/ Reload
  \/ ClearAllHistory
  \/ StartTest(MaxRuns)
  \/ ResetAfterCompletion
  \/ RunStep(SteadyDts)

SpecHistory == InitHistory /\ [][NextHistory]_vars

\* SpecAppend: one page session opened on an absent store, with runs that
\* nothing interrupts and no Clear History.
InitAppend ==
  /\ FreshPage
  /\ clock = 0
  /\ storage = Absent

NextAppend ==
  \/ PageStep(ResolvedInfos)
  \/ StartTest(MaxAppendRuns)
  \/ ResetAfterCompletion
  \/ RunStep(SteadyDts)

SpecAppend == InitAppend /\ [][NextAppend]_vars

\* SpecStages: the stages of a run on a page opened on an absent store, with
\* any number of failing probes, awaits of StageDts ms, failing transfers and
\* the cancellation.
StageDts == {1000, 4500, 9500}

NextStages ==
  \/ Mount
  \/ CleanupTimerFires
  \/ StartTest(MaxStageRuns)
  \/ ResetAfterCompletion
  \/ RunStep(StageDts)
  \/ PingProbeFails(numPings)
  \/ AbortTest
  \/ DlError
  \/ UlFetchFail(StageDts)

SpecStages == InitAppend /\ [][NextStages]_vars

\* SpecLive: one page session on an absent store in which every await of a
\* run takes LiveDts ms and settles in the end, one way or another, with at
\* most MaxPingFail failing probes, failing transfers and the cancellation.
LiveDts == {4500}

\* An await of the run settles: a probe, a timer, a fetch or a read resolves
\* or rejects and the code after it runs up to the next await.  The rejection
\* that abort() causes belongs to AbortTest, the task in which it runs.
Settles ==
  \/ RunStep(LiveDts)
  \/ PingProbeFails(MaxPingFail)
  \/ DlError
  \/ UlFetchFail(LiveDts)

NextLive ==
  \/ Mount
  \/ CleanupTimerFires
  \/ StartTest(MaxStageRuns)
  \/ ResetAfterCompletion
  \/ AbortTest
  \/ Settles

SpecLive == InitAppend /\ [][NextLive]_vars /\ WF_vars(Settles)

\* SpecPing: the probe loop of one run on a page opened on an absent store,
\* with probes that resolve after ProbeRaws ms: a fast one, an average one
\* and one that is slower than the cap of httpPing and imgPing and faster
\* than the 3000 ms timeout of the probes.
ProbeRaws == {10, 40, 1200}

NextPing ==
  \/ Mount
  \/ CleanupTimerFires
  \/ StartTest(MaxStageRuns)
  \/ PingProbeOk(ProbeRaws)
  \/ PingDelayDone

SpecPing == InitAppend /\ [][NextPing]_vars

\* SpecOverall: one call of updateOverallProgress.  run is the frame of the
\* call: the stage bounds are StageBounds, and
\* stageProgress is any half percent from 0 to 100 (in units of 1/200 percent).
StageProgressValues == {100 * k : k \in 0..200}

InitOverall ==
  /\ mounted = TRUE
  /\ currentView = "test"
  /\ isTesting = TRUE
  /\ currentTest \in {"ping", "download", "upload"}
  /\ progress = 0
  /\ testStatus = "Preparing your speed test..."
  /\ ping = Dash
  /\ downloadSpeed = Dash
  /\ uploadSpeed = Dash
  /\ testHistory = << >>
  /\ abortControllerRef = 1
  /\ serverInfo = Placeholder("Detecting...")
  /\ storage = Absent
  /\ cleanupTimer = FALSE
  /\ clock = 1
  /\ \E bounds \in StageBounds, x \in StageProgressValues :
       run = [pc |-> "updateOverallProgress", stageStart |-> bounds[1],
              stageEnd |-> bounds[2], stageProgress |-> x]

\* updateOverallProgress(stageStart, stageEnd, stageProgress)
UpdateOverallProgress ==
  /\ run.pc = "updateOverallProgress"
  /\ progress' \in OverallProgress(run.stageStart, run.stageEnd, run.stageProgress)
  /\ run' = [run EXCEPT !.pc = "returned"]
  /\ UNCHANGED << mounted, currentView, isTesting, currentTest, testStatus, ping,
                  downloadSpeed, uploadSpeed, testHistory, abortControllerRef,
                  serverInfo, storage, cleanupTimer, clock >>

NextOverall == UpdateOverallProgress

SpecOverall == InitOverall /\ [][NextOverall]_vars

\* ----------------------------------------------------------- the outcomes

RunEnded == run.pc = "ended"

\* The three ways a run ends, as the session shows them.
ShowsComplete == currentTest = "complete"
ShowsAborted == currentTest = "idle" /\ testStatus = "Test stopped safely"
ShowsFailed == currentTest = "idle" /\ testStatus = "Connection issue detected - no worries!"

\* The id of the result that the run in the frame saves when it completes.
RunResultId == NowId(run.signal.id)

\* The number of entries of a list that carry the id.
CountId(list, id) == Cardinality({j \in 1..Len(list) : list[j].id = id})

\* The step enters Complete from the last pause of the upload stage.
CompletesNow == run.pc = "ul_pause" /\ currentTest' = "complete"

\* ---------------------------------------------------------------- claims

\* C1 (as claimed): a run during which abortTest fired ends in the cancelled
\* outcome: stage idle with the status 'Test stopped safely', never Complete
\* and never Failed.
C1_AbortedRunEndsAborted ==
  (RunEnded /\ run.signal.aborted) => ShowsAborted

\* C2 (as claimed): a run cancelled during the Download stage ends Aborted
\* with the upload metric 'N/A', and no result of the run is in the history
\* or in the store.
C2_AbortInDownload ==
  (RunEnded /\ run.abortStage = "download") =>
     /\ ShowsAborted
     /\ uploadSpeed = NA
     /\ CountId(testHistory, RunResultId) = 0
     /\ CountId(storage.items, RunResultId) = 0

\* C3: every step of a run leaves the history and the store as they are,
\* except the step that reaches Complete, which puts this run's result into
\* both exactly once; so a completed run has appended once and a run that
\* ended Aborted or Failed has appended nothing.
C3_OneAppendPerCompletedRun ==
  /\ [][(mounted' /\ run' # run) =>
          IF CompletesNow
          THEN /\ CountId(testHistory', RunResultId) = 1
               /\ CountId(storage'.items, RunResultId) = 1
               /\ testHistory'[1].id = RunResultId
               /\ storage' = Stringify(testHistory')
          ELSE UNCHANGED << testHistory, storage >>]_vars
  /\ []((RunEnded /\ ~ShowsComplete) =>
          /\ CountId(testHistory, RunResultId) = 0
          /\ CountId(storage.items, RunResultId) = 0)

C3_Witness ==
  /\ RunEnded
  /\ ShowsComplete
  /\ CountId(testHistory, RunResultId) = 1
  /\ CountId(storage.items, RunResultId) = 1
  /\ Len(testHistory) = 2

\* C4 (as claimed): the result saved by a completed run carries the final
\* values that the three stages of this run measured.
C4_SavedResultIsMeasured ==
  (RunEnded /\ ShowsComplete /\ CountId(testHistory, RunResultId) = 1) =>
     /\ run.finalPing = Shown(testHistory[1].ping.n)
     /\ run.finalDownload = Shown(testHistory[1].download.n)
     /\ run.finalUpload = Shown(testHistory[1].upload.n)

\* C5: while a run is active no step starts another run: the clock of
\* startTest does not tick, the run keeps its cancellation handle, the ref
\* holds that handle, and the stage is Ping, Download or Upload with
\* isTesting set, so the GO button is not there to be clicked.
C5_SingleRun ==
  /\ [][(RunActive /\ mounted') =>
          /\ clock' = clock
          /\ run'.signal.id = run.signal.id
          /\ abortControllerRef' \in {run.signal.id, 0}
          /\ run'.c = run.c]_vars
  /\ [](RunActive =>
          /\ isTesting
          /\ currentTest \in {"ping", "download", "upload"}
          /\ abortControllerRef = run.signal.id
          /\ ~GoButtonEnabled)

C5_Witness ==
  /\ RunActive
  /\ currentView = "test"
  /\ run.pc = "ul_fetch"
  /\ clock = 2
  /\ run.signal.id = 2

\* The step is Clear History, confirmed.
ClearsNow == currentView = "history" /\ testHistory' = << >> /\ storage' = Absent

\* C6 (as claimed): once the load has put entries into the history, no step
\* other than the append of a completed run and Clear History changes the
\* history or the store.
C6_LoadedEntriesStay ==
  [][(mounted /\ mounted' /\ testHistory # << >> /\ ~CompletesNow /\ ~ClearsNow) =>
       UNCHANGED << testHistory, storage >>]_vars

\* The number of runs that have completed in a session where every run
\* completes: the clock counts the runs started.
CompletedRuns == IF RunActive THEN clock - 1 ELSE clock

\* C7: after n completed runs on an initially empty history, with no Clear
\* History, the history and the store hold the results of the last
\* min(n, 20) runs, the most recent first.
C7_LastTwentyMostRecentFirst ==
  LET n == CompletedRuns
  IN /\ Len(testHistory) = Min(n, HistoryCap)
     /\ \A j \in 1..Len(testHistory) : testHistory[j].id = NowId(n - j + 1)
     /\ n > 0 => storage = Stringify(testHistory)

C7_Witness ==
  /\ RunEnded
  /\ clock = 22
  /\ Len(testHistory) = 20
  /\ testHistory[1].id = NowId(22)
  /\ testHistory[20].id = NowId(3)
  /\ Len(storage.items) = 20

\* An entry as the load is to leave it.
Repaired(e) ==
  /\ e.ping.ty = "number" /\ e.ping.n >= 100
  /\ e.download.ty = "number" /\ e.download.n >= 10
  /\ e.upload.ty = "number" /\ e.upload.n >= 10
  /\ \A v \in {e.provider, e.location, e.ip} : Truthy(v) /\ v # Str("Unknown")
  /\ Truthy(e.id)
  /\ e.timestamp.ty = "date"

\* C8 (as claimed): the load repairs every entry, writes the repaired list
\* back, and a second load of what it wrote gives the same history and
\* leaves the store as it is.
C8_LoadIdempotent ==
  [][(~mounted /\ mounted') =>
       /\ \A j \in 1..Len(testHistory') : Repaired(testHistory'[j])
       /\ testHistory' # << >> => storage' = Stringify(testHistory')
       /\ \A draws \in RandomDraws(storage'), lenient \in DateParsers :
            LoadHistory(storage', clock', draws, lenient) =
              [history |-> testHistory', storage |-> storage']]_vars

\* A text fit to be shown: a non-empty string that is no sentinel and no
\* lookup placeholder.
FinalText(v) ==
  v.ty = "string" /\ v.s \notin {"", "Unknown", "Loading...", "Detecting..."}

\* C9 (as claimed): after the load every entry of the history, in memory and
\* in the store, has ping >= 1, download >= 0.1, upload >= 0.1 and provider,
\* location and ip texts that are neither empty, nor 'Unknown', nor a
\* 'Loading...' or 'Detecting...' placeholder.
C9_EntriesValid ==
  mounted =>
    \A list \in {testHistory, storage.items} :
      \A j \in 1..Len(list) :
        /\ list[j].ping.ty = "number" /\ list[j].ping.n >= 100
        /\ list[j].download.ty = "number" /\ list[j].download.n >= 10
        /\ list[j].upload.ty = "number" /\ list[j].upload.n >= 10
        /\ FinalText(list[j].provider)
        /\ FinalText(list[j].location)
        /\ FinalText(list[j].ip)

\* A stored text that is not empty and cannot be parsed or is no list of
\* records.
Corrupt(saved) ==
  \/ saved.t \in {"garbage", "scalar"}
  \/ saved.t = "array" /\ \E j \in 1..Len(saved.items) : saved.items[j].k # "object"

\* C10 (as claimed): the load of a stored text that cannot be parsed or is no
\* list of records ends with an empty history and the key removed, so that
\* the runs that follow append to an empty history.
C10_CorruptStoreIsEmptied ==
  [][(~mounted /\ mounted' /\ Corrupt(storage)) =>
       (testHistory' = << >> /\ storage' = Absent)]_vars

\* C11: within one run the published progress never goes down, from the 0
\* that startTest sets to the 100 of its finally block, and every value lies
\* in 0..100, whatever probes fail and however long the transfers take.
C11_ProgressNonDecreasing ==
  /\ [][(RunActive /\ mounted') => progress' >= progress]_vars
  /\ [][(~RunActive /\ RunActive') => progress' = 0]_vars
  /\ [](progress \in 0..100)

C11_Witness ==
  /\ currentTest = "download"
  /\ run.pc = "dl_read"
  /\ run.finalPing = Shown(3500)
  /\ run.now - run.startTime = 9500
  /\ progress = 56

\* C12: updateOverallProgress(a, b, x) publishes the integer nearest to
\* a + (b - a) * x / 100: a for x = 0, b for x = 100, and no less for a
\* larger x.
C12_OverallProgress ==
  run.pc = "returned" =>
    LET a == run.stageStart
        b == run.stageEnd
        x == run.stageProgress
        exact == a * 20000 + (b - a) * x
    IN /\ 2 * (progress * 20000 - exact) <= 20000
       /\ 2 * (exact - progress * 20000) < 20000
       /\ x = 0 => progress = a
       /\ x = 20000 => progress = b
       /\ \A y \in StageProgressValues :
            y >= x => \A later \in OverallProgress(a, b, y) : later >= progress

C12_Witness ==
  /\ run.pc = "returned"
  /\ run.stageStart = 10
  /\ run.stageEnd = 60
  /\ run.stageProgress = 9100
  /\ progress = 33

\* C13 (as claimed): a run that ended after abortTest fired shows the status
\* 'Test stopped safely' and never 'Connection issue', and a run that ended
\* on another error shows 'Connection issue' and never 'Test stopped'.
C13_CancelledAndFailedDiffer ==
  (RunEnded /\ ~ShowsComplete) =>
     /\ run.signal.aborted => (ShowsAborted /\ ~ShowsFailed)
     /\ ~run.signal.aborted => (ShowsFailed /\ ~ShowsAborted)

\* C14: while no cancellation has fired, no step of the Ping stage ends the
\* run: a probe that fails adds no sample, publishes nothing and the loop
\* goes on with the delay, and the last pause of the stage hands over to
\* Download, whatever probes failed.
C14_FailedProbeIsDropped ==
  [][(currentTest = "ping" /\ RunActive /\ mounted'
        /\ ~run.signal.aborted /\ ~run'.signal.aborted) =>
       /\ run'.pc # "ended"
       /\ currentTest' = IF run.pc = "ping_pause3" /\ run' # run
                         THEN "download" ELSE "ping"
       /\ run'.fails > run.fails =>
            /\ run'.pc = "ping_delay"
            /\ run'.i = run.i
            /\ run'.weightedResults = run.weightedResults
            /\ UNCHANGED << ping, progress >>]_vars

C14_Witness ==
  /\ currentTest = "download"
  /\ run.pc = "dl_fetch"
  /\ ~run.signal.aborted
  /\ run.finalPing = Shown(3500)
  /\ progress = 0

\* C15 (as claimed): a transport error of a transfer that is no cancellation,
\* in Download or in Upload, ends the run at once with the status of a failed
\* run and leaves the history and the store as they are.
C15_TransportErrorFailsRun ==
  [][(DlError \/ UlFetchFail(Dts)) =>
       /\ run'.pc = "ended"
       /\ currentTest' = "idle"
       /\ testStatus' = "Connection issue detected - no worries!"
       /\ UNCHANGED << testHistory, storage >>]_vars

\* C16 (as claimed): after a run that ended Aborted no metric shows '-', and
\* the upload metric of a run cancelled before the Upload stage shows 'N/A'.
C16_AbortedShowsNA ==
  (RunEnded /\ ShowsAborted) =>
     /\ Dash \notin {ping, downloadSpeed, uploadSpeed}
     /\ run.abortStage \in {"ping", "download"} => uploadSpeed = NA

\* C17 (as claimed): after a run that ended Failed no metric shows '-' or
\* 'N/A', and the upload metric, whose stage a failed run never reaches,
\* shows '--'.
C17_FailedShowsErrorMark ==
  (RunEnded /\ ShowsFailed) =>
     /\ Dash \notin {ping, downloadSpeed, uploadSpeed}
     /\ NA \notin {ping, downloadSpeed, uploadSpeed}
     /\ uploadSpeed = ErrMark

\* C18 (as claimed): the stage moves only from idle to ping, ping to
\* download, download to upload, upload to complete, from an active stage to
\* aborted or failed, and from complete, aborted or failed to idle; so no
\* active stage is left for idle.
C18_StageOrder ==
  [][LET active == {"ping", "download", "upload"}
         over == {"aborted", "failed"}
         StageSteps ==
           { << "idle", "ping" >>, << "ping", "download" >>,
             << "download", "upload" >>, << "upload", "complete" >>,
             << "complete", "idle" >> }
             \cup (active \X over) \cup (over \X {"idle"})
     IN (mounted /\ mounted') =>
          (currentTest' = currentTest
             \/ << currentTest, currentTest' >> \in StageSteps)]_vars

\* C19 (as claimed): when the Ping stage ends with at least 3 samples, the
\* ping it publishes is the weighted mean of the samples inside the IQR
\* bounds times the heuristic factor.
C19_FinalPingIsFilteredMean ==
  [][(run.pc = "ping_delay" /\ run'.pc = "ping_pause1"
        /\ Len(run.weightedResults) >= 3) =>
       ping' \in FinalPing(run.weightedResults)]_vars

\* C20 (as claimed): when the Ping stage ends without a sample, the ping it
\* publishes is the fallback 35.0, and the ping published at the end of any
\* Ping stage is a number that is not negative.
C20_FallbackPing ==
  [][(run.pc = "ping_delay" /\ run'.pc = "ping_pause1") =>
       /\ run.weightedResults = << >> => ping' = Shown(3500)
       /\ ping'.s = "number" /\ ping'.n >= 0]_vars

\* C21: abortTest raises no error in any state of a mounted page, with a run
\* active or not; called while no run is active it leaves the frame of the
\* last run as it is; and a click on Abort Test in a run whose signal is
\* aborted already changes no variable, so that the run goes on and ends as
\* it does after the first click.
C21_AbortIdempotent ==
  /\ [](mounted => ~AbortTestThrows(abortControllerRef))
  /\ []((mounted /\ ~isTesting) =>
          AbortedRun(run, abortControllerRef, currentTest) = run)
  /\ [][(AbortTest /\ run.signal.aborted) => UNCHANGED vars]_vars

\* Abort Test has been clicked in the Ping stage and the run is still in the
\* Ping stage with the button on the page: the next click is a second one.
C21_Witness ==
  /\ RunActive
  /\ AbortButtonShown
  /\ abortControllerRef # 0
  /\ run.signal.aborted
  /\ run.abortStage = "ping"
  /\ currentTest = "ping"
  /\ ENABLED AbortTest

\* C22 (as claimed): when Clear History has emptied the history and removed
\* the store key while a run is in flight, the completion of that run leaves
\* exactly one entry, the result of the run, in the history and in the store.
C22_ClearedEntriesStayCleared ==
  [][(CompletesNow /\ testHistory = << >> /\ storage = Absent) =>
       /\ Len(testHistory') = 1
       /\ testHistory'[1].id = RunResultId
       /\ storage' = Stringify(testHistory')]_vars

\* C23 (as claimed): at the step that ends a run Aborted or Failed, the
\* metric of every stage the run has left keeps the value it shows: the ping
\* of a run that ends in Download or Upload, the download speed of a run
\* that ends in Upload.
C23_PublishedMetricsKept ==
  [][(RunActive /\ run'.pc = "ended" /\ currentTest' = "idle") =>
       /\ currentTest \in {"download", "upload"} => (ping.s = "number" /\ ping' = ping)
       /\ currentTest = "upload" =>
            (downloadSpeed.s = "number" /\ downloadSpeed' = downloadSpeed)]_vars

\* C24 (as claimed): once the signal of the run is aborted, no step of the
\* run dispatches a further probe, enters a later stage or publishes a value
\* for the metric of a later stage; the run can only end.
C24_NothingStartsAfterAbort ==
  [][(RunActive /\ run.signal.aborted /\ mounted') =>
       /\ run'.pc = "ping_probe" => run.pc = "ping_probe"
       /\ currentTest' \in {currentTest, "idle"}
       /\ currentTest = "ping" =>
            /\ downloadSpeed' \in {downloadSpeed, NA, ErrMark}
            /\ uploadSpeed' \in {uploadSpeed, NA, ErrMark}
       /\ currentTest = "download" => uploadSpeed' \in {uploadSpeed, NA, ErrMark}]_vars

\* C25: during a run the metric of a stage that has not been entered shows
\* '-', the value startTest resets it to, and on entering Ping, Download and
\* Upload the metric of the stage shows the fixed initial value of the stage
\* (185.0, 260.0, 12.0): no value of an earlier run is on the display.
C25_NoStaleMetric ==
  RunActive =>
    /\ currentTest \in {"ping", "download", "upload"}
    /\ ping.s = "number"
    /\ currentTest = "ping" => (downloadSpeed = Dash /\ uploadSpeed = Dash)
    /\ (run.pc = "ping_probe" /\ run.i = 0) => ping = Shown(18500)
    /\ currentTest = "download" =>
         (downloadSpeed.s \in {"number", "NaN", "Infinity"} /\ uploadSpeed = Dash)
    /\ run.pc = "dl_fetch" => downloadSpeed = Shown(26000)
    /\ currentTest = "upload" => uploadSpeed.s \in {"number", "NaN", "Infinity"}
    /\ (run.pc = "ul_fetch" /\ run.now = 0) => uploadSpeed = Shown(1200)

\* The second run of a session, in Ping, after a first run that was cancelled
\* and left 'N/A' on the display.
C25_Witness ==
  /\ RunActive
  /\ run.signal.id = 2
  /\ currentTest = "ping"
  /\ run.c.downloadSpeed = NA
  /\ run.c.uploadSpeed = NA
  /\ downloadSpeed = Dash

\* C26: once the load effect has run, the store is the JSON text of the
\* history in memory (a Date is stored as its toJSON value); when the history
\* is empty the store key is absent, holds '[]', or holds the empty text
\* that the load leaves untouched.
C26_HistoryMatchesStore ==
  mounted =>
    IF testHistory = << >>
    THEN storage \in {Absent, EmptyText, ArrayText(<< >>)}
    ELSE storage = Stringify(testHistory)

\* A completed run appended in front of a loaded entry, both in memory and
\* in the store.
C26_Witness ==
  /\ mounted
  /\ RunEnded
  /\ Len(testHistory) = 2
  /\ testHistory[1].id = RunResultId
  /\ testHistory[2].timestamp.ty = "date"
  /\ storage.t = "array"
  /\ Len(storage.items) = 2
  /\ storage.items[2].timestamp.ty # "date"

\* C27: while isTesting is false abortControllerRef is null, and while a run
\* is active isTesting is true and the ref holds the controller that the
\* startTest of this run created, the latest of the session.
C27_HandleFollowsRun ==
  /\ ~isTesting => abortControllerRef = 0
  /\ isTesting <=> RunActive
  /\ RunActive =>
       /\ abortControllerRef # 0
       /\ abortControllerRef = run.signal.id
       /\ run.signal.id = clock

\* The second run of a session, cancelled, with the ref on its controller.
C27_Witness ==
  /\ isTesting
  /\ run.signal.id = 2
  /\ abortControllerRef = 2
  /\ run.signal.aborted

\* C28 (as claimed): in every state the history holds at most 20 entries,
\* also right after the load of a stored list of more than 20 entries.
C28_AtMostTwenty ==
  Len(testHistory) <= HistoryCap

\* C29 (as claimed): during a run the overall progress lies in the range of
\* the stage the session is in: 0..10 in Ping, 10..60 in Download and
\* 60..100 in Upload, from the entry of the stage on.
C29_ProgressInStageRange ==
  RunActive =>
    /\ currentTest = "ping" => progress \in 0..10
    /\ currentTest = "download" => progress \in 10..60
    /\ currentTest = "upload" => progress \in 60..100

\* C30: when every await settles, a run that was started ends: isTesting is
\* false again, abortControllerRef is null and the progress reads 100; so
\* does, in particular, a run whose signal was aborted.
C30_RunEnds ==
  /\ RunActive ~> (RunEnded /\ ~isTesting /\ abortControllerRef = 0 /\ progress = 100)
  /\ (RunActive /\ run.signal.aborted) ~>
       (RunEnded /\ run.signal.aborted /\ ~isTesting /\ abortControllerRef = 0)

\* A run cancelled during Upload has ended.
C30_Witness ==
  /\ RunEnded
  /\ run.signal.aborted
  /\ run.abortStage = "upload"
  /\ ~isTesting
  /\ abortControllerRef = 0
  /\ progress = 100

\* C31 (as claimed): a throughput stage stops no later than testDuration ms
\* after its start time, whether the transfer has ended, goes on or stalls:
\* the time the stage has run when it stops is at most the budget.
C31_StageStopsAtBudget ==
  run.pc \in {"dl_pause", "ul_pause"} => run.finalTime <= testDuration

\* C32 (as claimed): every sample the Ping stage has recorded, whatever the
\* probe variant it comes from, is at most 800 ms.
C32_SamplesCapped ==
  \A k \in 1..Len(run.weightedResults) : run.weightedResults[k].value <= 800

\* C33: the IQR filter keeps at least one of any 3 or more samples, so the
\* final ping of such a list is never the median of the fallback: it is the
\* adjusted weighted mean of the samples kept.
C33_FilterKeepsASample ==
  Len(run.weightedResults) >= 3 =>
    LET kept == FilteredPings(run.weightedResults)
        pingValues == SortAsc(Values(run.weightedResults))
    IN /\ Len(kept) > 0
       /\ \E k \in 1..Len(kept) : kept[k].value = Quartile1(pingValues)
       /\ FinalPing(run.weightedResults) =
            ToFixed1(SumValueWeight(kept) * Factor(pingValues), SumWeight(kept) * 100)

\* Nine fast samples and a slow WebSocket sample that the filter removes.
C33_Witness ==
  /\ Len(run.weightedResults) = numPings
  /\ run.weightedResults[5].value = 1200
  /\ \A k \in (1..numPings) \ {5} : run.weightedResults[k].value = 10
  /\ Len(FilteredPings(run.weightedResults)) = numPings - 1

\* C34: for 3 or more samples the value runPingTest computes is the weighted
\* mean of the samples kept times one factor chosen from the raw samples:
\* 0.95 when more than half of them are under 20 ms, otherwise 1.05 when
\* more than 30% of them are over 100 ms, otherwise 1.
C34_OneFactor ==
  Len(run.weightedResults) >= 3 =>
    LET raw == Values(run.weightedResults)
        n == Len(raw)
        fast == Cardinality({k \in 1..n : raw[k] < 20})
        slow == Cardinality({k \in 1..n : raw[k] > 100})
        factor == IF 2 * fast > n THEN 95
                  ELSE IF 10 * slow > 3 * n THEN 105 ELSE 100
        kept == FilteredPings(run.weightedResults)
    IN /\ Factor(SortAsc(raw)) = factor
       /\ FinalPing(run.weightedResults) =
            ToFixed1(SumValueWeight(kept) * factor, SumWeight(kept) * 100)

\* Six samples under 20 ms and four over 100 ms: both tests hold and the
\* factor is 0.95.
C34_Witness ==
  /\ Len(run.weightedResults) = numPings
  /\ FastPings(Values(run.weightedResults)) = 6
  /\ SlowPings(Values(run.weightedResults)) = 4
  /\ Factor(SortAsc(Values(run.weightedResults))) = 95
  /\ run.pc = "ping_delay"
  /\ Len(FilteredPings(run.weightedResults)) = numPings

\* C35 (as claimed): when a throughput stage stops, the value it reports is
\* the speed formula on the bytes and the time of the stop, and when that
\* time is 0 it is the estimate shown before; it is a number, never NaN or
\* Infinity, and never negative.
C35_FinalSpeedIsMeasured ==
  [][/\ (run.pc = "dl_read" /\ run'.pc = "dl_pause") =>
          /\ downloadSpeed'.s = "number" /\ downloadSpeed'.n >= 0
          /\ downloadSpeed' = IF run'.finalTime > 0 THEN run'.finalDownload
                               ELSE downloadSpeed
     /\ (run.pc = "ul_fetch" /\ run'.pc = "ul_pause") =>
          /\ uploadSpeed'.s = "number" /\ uploadSpeed'.n >= 0
          /\ uploadSpeed' = IF run'.finalTime > 0 THEN run'.finalUpload
                             ELSE uploadSpeed]_vars

\* C36: Test Again is rendered only when the stage is complete and no run is
\* active, and the step that takes a mounted page out of complete sets the
\* stage to idle, the three metrics to '-', the progress to 0 and the status
\* to ready, and leaves isTesting, the history, the store and the ref, which
\* is null, as they are.
C36_ResetAfterCompletion ==
  /\ [](TestAgainShown => (ShowsComplete /\ ~isTesting /\ ~RunActive))
  /\ [][(mounted' /\ currentTest = "complete" /\ currentTest' # "complete") =>
          /\ TestAgainShown
          /\ currentTest' = "idle"
          /\ ping' = Dash /\ downloadSpeed' = Dash /\ uploadSpeed' = Dash
          /\ progress' = 0
          /\ testStatus' = "Ready to test your speed"
          /\ abortControllerRef = 0
          /\ UNCHANGED << isTesting, testHistory, storage, abortControllerRef >>]_vars

\* The page after the reset that follows the third completed run.
C36_Witness ==
  /\ currentTest = "idle"
  /\ run = NoRun
  /\ clock = 3
  /\ ping = Dash /\ downloadSpeed = Dash /\ uploadSpeed = Dash
  /\ progress = 0
  /\ testStatus = "Ready to test your speed"
  /\ Len(testHistory) = 3
  /\ storage = Stringify(testHistory)
  /\ abortControllerRef = 0

====
